---- MODULE Spec2Model ----
(***************************************************************************)
(* Model of egi_notebooks_hub/egiauthenticator.py:                         *)
(*   EGICheckinAuthenticator.refresh_user  (token refresh manager)         *)
(*   DataHubAuthenticator.authenticate     (storage token broker)          *)
(*   DataHubAuthenticator.pre_spawn_start  (storage identity mapper)       *)
(* One user session.  Every await on the network is a position of the      *)
(* coroutine (pc); the remote services answer nondeterministically.        *)
(***************************************************************************)
EXTENDS Integers, Sequences, FiniteSets, TLC

\* ------------------------------------------------------------------ bounds
MaxTime == 3        \* the clock (time.time()) runs over 1..MaxTime
MaxExpiresIn == 2   \* expires_in of a token-endpoint response: 1..MaxExpiresIn
MaxMargin == 1      \* auth_refresh_age is configured in 0..MaxMargin
MaxLogins == 3      \* the logins started in a run of the concurrent logins

\* ------------------------------------------------------------------ values
Absent == "<absent>"      \* a key that is not in a dict / a JSON body
NoneVal == "<None>"       \* Python None

client_id == "client-id"
client_secret == "client-secret"
token_name == "notebooks.egi.eu"
oneprovider_host == "plg-cyfronet-01.datahub.egi.eu"
oneprovider_token == "provider-token"
storage_id == "storage-id"

\* what the OIDC base layer can hand over
CheckinTokens == {"at0"}
BaseRefreshTokens == {Absent, "rt0"}
\* what the identity provider's token endpoint can answer
NewAccessTokens == {"at1", "at2"}
NewRefreshTokens == {"rt1"}
IdTokens == {Absent, "id1"}
\* what the storage system (onezone) can answer; "" is a falsy token value
LookupTokens == {"", "tok1"}
LookupUsers == {"u1"}
CreatedTokens == {"tok2"}
UserIds == {"u1", "u2"}
\* HTTPError codes of the storage system: not found, server failure, no
\* response (transport)
ErrorCodes == {404, 500, 599}
\* HTTPClientError codes of the token endpoint: rejected, no response (transport)
TokenErrorCodes == {400, 599}

NoRefreshInfo ==
  [present |-> FALSE, expiry_time |-> 0, expires_in |-> 0,
   access_token |-> Absent, refresh_token |-> Absent, id_token |-> Absent]

\* get_auth_state() returning None
NoAuthState ==
  [exists |-> FALSE, access_token |-> Absent, refresh_token |-> Absent,
   refresh_info |-> NoRefreshInfo, onedata_token |-> Absent, onedata_user |-> Absent]

\* an entry of the wire log: a request sent or a response received
Req(what, method, auth, name, grant, rtok, id, secret) ==
  [ev |-> "req", what |-> what, method |-> method, code |-> 0,
   auth |-> auth, name |-> name, grant |-> grant, rtok |-> rtok,
   id |-> id, secret |-> secret, token |-> Absent, user |-> Absent]
Resp(what, code, token, user) ==
  [ev |-> "resp", what |-> what, method |-> "", code |-> code,
   auth |-> <<>>, name |-> "", grant |-> "", rtok |-> "",
   id |-> "", secret |-> "", token |-> token, user |-> user]

VARIABLES
  now,              \* the clock read by time.time()
  auth_refresh_age, \* configured margin (seconds)
  has_hook,         \* the spawner exposes set_access_token
  auth_state,       \* the AuthState the platform keeps for the user
  spawner,          \* what set_access_token last stored on the spawner
  hook_called,      \* set_access_token was called by the operation started last
  pc,               \* position of the one running coroutine
  op,               \* the operation started last
  result,           \* its outcome: pending, returned, raised, True, False
  error,            \* the exception it raised
  log,              \* requests and responses of the operation started last
  base,             \* authenticate: what super().authenticate gave
  user_data,        \* authenticate: user_data["auth_state"]
  onedata_token,    \* authenticate: local
  onedata_user,     \* authenticate: local
  r_now,            \* refresh_user: now, line 95
  r_local,          \* refresh_user: the local dict auth_state
  map_users,        \* configured: perform the mapping
  environment,      \* spawner.environment: the two variables of lines 323-324
  s_local,          \* pre_spawn_start: the local auth_state, line 272
  store,            \* storage system: the tokens named token_name it created
  posts,            \* storage system: the creation POSTs issued to it so far
  started,          \* the logins started so far
  l_pc,             \* per login pipeline: position in authenticate
  l_token,          \* per login pipeline: onedata_token
  l_result          \* per login pipeline: how its last authenticate ended

vars == <<now, auth_refresh_age, has_hook, auth_state, spawner, hook_called, pc,
          op, result, error, log, base, user_data, onedata_token,
          onedata_user, r_now, r_local, map_users, environment, s_local,
          store, posts, started, l_pc, l_token, l_result>>

config == <<auth_refresh_age, has_hook, map_users>>
spawnVars == <<environment, s_local>>
loginVars == <<store, posts, started, l_pc, l_token, l_result>>

\* the login pipelines that may run at the same time, for one identity
Logins == {"A", "B"}
authLocals == <<base, user_data, onedata_token, onedata_user>>
refreshLocals == <<r_now, r_local>>

NoSpawnerToken == [access_token |-> Absent, id_token |-> Absent]
NoBase == [kind |-> "", access_token |-> Absent, refresh_token |-> Absent]
NoEnvironment == [token_env |-> Absent, oneprovider_env |-> Absent]

Init ==
  /\ now = 1
  /\ auth_refresh_age \in 0..MaxMargin
  /\ has_hook \in BOOLEAN
  /\ auth_state = NoAuthState
  /\ spawner = NoSpawnerToken
  /\ hook_called = FALSE
  /\ pc = "idle"
  /\ op = "none"
  /\ result = "none"
  /\ error = ""
  /\ log = <<>>
  /\ base = NoBase
  /\ user_data = NoAuthState
  /\ onedata_token = NoneVal
  /\ onedata_user = NoneVal
  /\ r_now = 0
  /\ r_local = NoAuthState
  /\ map_users \in BOOLEAN
  /\ environment = NoEnvironment
  /\ s_local = NoAuthState
  /\ store = <<>>
  /\ posts = 0
  /\ started = 0
  /\ l_pc = [p \in Logins |-> "idle"]
  /\ l_token = [p \in Logins |-> NoneVal]
  /\ l_result = [p \in Logins |-> "none"]

\* time passes, also while a request is in flight
Tick ==
  /\ now < MaxTime
  /\ now' = now + 1
  /\ UNCHANGED <<loginVars, config, auth_state, spawner, hook_called, pc, op, result, error,
                 log, authLocals, refreshLocals, spawnVars>>

\* ---------------------------------------------------------------- helpers
\* the operation ends by raising: nothing is returned, nothing is persisted
Raise(err) ==
  /\ pc' = "idle"
  /\ result' = "raised"
  /\ error' = err
  /\ UNCHANGED auth_state

\* ------------------------------------------- DataHubAuthenticator.authenticate
\* outcomes of super().authenticate: a user model, None, or an exception
BaseOutcomes ==
  [kind : {"user"}, access_token : CheckinTokens, refresh_token : BaseRefreshTokens]
  \cup {[NoBase EXCEPT !.kind = "none"], [NoBase EXCEPT !.kind = "raise"]}

\* mutant: the broker runs whatever the base layer gave
BaseOk_always(out) == TRUE

\* line 210 can read user_data["auth_state"]["access_token"]
BaseOk(out) == out.kind = "user"

\* the auth_state of the user model the OIDC base layer returns
BaseAuthState(out) ==
  [NoAuthState EXCEPT !.exists = TRUE, !.access_token = out.access_token,
                      !.refresh_token = out.refresh_token]

\* headers, lines 211-214
EgiAuth(checkin_token) == <<"egi", checkin_token>>

\* line 215-219
LookupRequest(checkin_token) ==
  Req("token_lookup", "GET", EgiAuth(checkin_token), token_name, "", "", "", "")
\* lines 232-244
CreateRequest(checkin_token) ==
  Req("token_create", "POST", EgiAuth(checkin_token), token_name, "", "", "", "")
\* mutant: the follow-up call repeats the creation POST
UserRequest_asCreate(checkin_token) == CreateRequest(checkin_token)

\* lines 253-257
UserRequest(checkin_token) ==
  Req("user", "GET", EgiAuth(checkin_token), "", "", "", "", "")

\* what http_client.fetch can give: a 200 body (a key may be missing), or HTTPError
LookupResponses ==
  {Resp("token_lookup", 200, t, u) : t \in LookupTokens, u \in LookupUsers}
  \cup {Resp("token_lookup", 200, Absent, Absent), Resp("token_lookup", 200, "tok1", Absent)}
  \cup {Resp("token_lookup", c, Absent, Absent) : c \in ErrorCodes}
CreateResponses ==
  {Resp("token_create", 200, t, Absent) : t \in CreatedTokens \cup {Absent}}
  \cup {Resp("token_create", c, Absent, Absent) : c \in ErrorCodes}
UserResponses ==
  {Resp("user", 200, Absent, u) : u \in UserIds \cup {Absent}}
  \cup {Resp("user", c, Absent, Absent) : c \in ErrorCodes}

\* mutant: every failure of the lookup is taken for "not found"
NotFound_any(code) == TRUE

\* line 227: e.code != 404 re-raises
NotFound(code) == code = 404

\* mutant: the found token is ignored
NoToken_always(tok) == TRUE

\* line 230: not onedata_token
NoToken(tok) == tok \in {NoneVal, ""}

\* lines 265-268: user_data is returned, and the platform stores its auth_state
AuthReturn(tok, usr) ==
  LET ud == [user_data EXCEPT !.onedata_token = tok, !.onedata_user = usr] IN
  /\ user_data' = ud
  /\ auth_state' = ud
  /\ result' = "returned"
  /\ error' = ""
  /\ pc' = "idle"

\* lines 204-221: the base layer's authenticate, then the lookup GET is sent
authenticate ==
  /\ pc = "idle"
  /\ op' = "authenticate"
  /\ onedata_token' = NoneVal
  /\ onedata_user' = NoneVal
  /\ hook_called' = FALSE
  /\ r_now' = 0
  /\ r_local' = NoAuthState
  /\ s_local' = NoAuthState
  /\ \E out \in BaseOutcomes :
       /\ base' = out
       /\ IF BaseOk(out)
          THEN /\ user_data' = BaseAuthState(out)
               /\ log' = <<LookupRequest(out.access_token)>>
               /\ pc' = "a_lookup"
               /\ result' = "pending"
               /\ error' = ""
               /\ UNCHANGED auth_state
          ELSE /\ user_data' = NoAuthState
               /\ log' = <<>>
               /\ Raise(IF out.kind = "none" THEN "TypeError" ELSE "BaseError")
  /\ UNCHANGED <<now, loginVars, config, spawner, environment>>

\* lines 221-244: the lookup answers; reuse, or send the creation POST
authenticate_lookup ==
  /\ pc = "a_lookup"
  /\ \E r \in LookupResponses :
       LET tok == IF r.code = 200 /\ r.token # Absent THEN r.token ELSE onedata_token
           usr == IF r.code = 200 /\ r.token # Absent /\ r.user # Absent
                  THEN r.user ELSE onedata_user
       IN
       /\ onedata_token' = tok
       /\ onedata_user' = usr
       /\ IF r.code = 200 /\ (r.token = Absent \/ r.user = Absent)
          THEN /\ log' = Append(log, r)
               /\ Raise("KeyError")
               /\ UNCHANGED user_data
          ELSE IF r.code # 200 /\ ~NotFound(r.code)
          THEN /\ log' = Append(log, r)
               /\ Raise("HTTPError")
               /\ UNCHANGED user_data
          ELSE IF NoToken(tok)
          THEN /\ log' = Append(Append(log, r), CreateRequest(user_data.access_token))
               /\ pc' = "a_create"
               /\ UNCHANGED <<result, error, auth_state, user_data>>
          ELSE /\ log' = Append(log, r)
               /\ AuthReturn(tok, usr)
  /\ UNCHANGED <<now, loginVars, config, spawner, hook_called, op, base, refreshLocals,
                 spawnVars>>

\* lines 245-257: the creation POST answers; send the user-resolution GET
authenticate_create ==
  /\ pc = "a_create"
  /\ \E r \in CreateResponses :
       IF r.code # 200
       THEN /\ log' = Append(log, r)
            /\ Raise("HTTPError")
            /\ UNCHANGED <<onedata_token, user_data>>
       ELSE IF r.token = Absent
       THEN /\ log' = Append(log, r)
            /\ Raise("KeyError")
            /\ UNCHANGED <<onedata_token, user_data>>
       ELSE /\ onedata_token' = r.token
            /\ log' = Append(Append(log, r), UserRequest(user_data.access_token))
            /\ pc' = "a_user"
            /\ UNCHANGED <<result, error, auth_state, user_data>>
  /\ UNCHANGED <<now, loginVars, config, spawner, hook_called, op, base, onedata_user,
                 refreshLocals, spawnVars>>

\* lines 258-268: the user-resolution GET answers; AuthState is completed
authenticate_user ==
  /\ pc = "a_user"
  /\ \E r \in UserResponses :
       /\ log' = Append(log, r)
       /\ IF r.code # 200
          THEN /\ Raise("HTTPError")
               /\ UNCHANGED <<onedata_user, user_data>>
          ELSE IF r.user = Absent
          THEN /\ Raise("KeyError")
               /\ UNCHANGED <<onedata_user, user_data>>
          ELSE /\ onedata_user' = r.user
               /\ AuthReturn(onedata_token, r.user)
  /\ UNCHANGED <<now, loginVars, config, spawner, hook_called, op, base, onedata_token,
                 refreshLocals, spawnVars>>

\* ------------------------------------- EGICheckinAuthenticator.refresh_user
\* mutant: only the presence of auth_state is tested
CanRefresh_noToken(as) == as.exists

\* line 91, negated: there is an auth_state and it has a refresh_token
CanRefresh(as) == as.exists /\ as.refresh_token # Absent

\* lines 96-98: refresh_info.get("expiry_time", 0) - now
TimeLeft(as, t) ==
  (IF as.refresh_info.present THEN as.refresh_info.expiry_time ELSE 0) - t

\* mutant: the margin is compared off by one
StillValid_off(time_left) == time_left > auth_refresh_age + 1

\* line 99
StillValid(time_left) == time_left > auth_refresh_age

\* mutant: the access token is sent in place of the refresh token
TokenRequest_access(as) ==
  Req("refresh", "POST", <<client_id, client_secret>>, "", "refresh_token",
      as.access_token, client_id, client_secret)

\* lines 105-125: the POST to token_url
TokenRequest(as) ==
  Req("refresh", "POST", <<client_id, client_secret>>, "", "refresh_token",
      as.refresh_token, client_id, client_secret)

\* what the token endpoint can answer: a JSON body, complete or with one of
\* the keys read at lines 132-135 missing, or HTTPClientError
TokenResponses ==
  [code : {200}, missing : {"none"}, expires_in : 1..MaxExpiresIn,
   access_token : NewAccessTokens, refresh_token : NewRefreshTokens,
   id_token : IdTokens]
  \cup [code : {200}, missing : {"expires_in", "access_token", "refresh_token"},
        expires_in : {1}, access_token : {"at1"}, refresh_token : {"rt1"},
        id_token : {Absent}]
  \cup [code : TokenErrorCodes, missing : {"none"}, expires_in : {1},
        access_token : {Absent}, refresh_token : {Absent}, id_token : {Absent}]

\* mutant: expiry_time is the lifetime alone, now is not added
RefreshInfo_noNow(r, t) ==
  [present |-> TRUE, expiry_time |-> r.expires_in, expires_in |-> r.expires_in,
   access_token |-> IF r.missing = "access_token" THEN Absent ELSE r.access_token,
   refresh_token |-> IF r.missing = "refresh_token" THEN Absent ELSE r.refresh_token,
   id_token |-> r.id_token]

\* lines 131-132: the parsed body with expiry_time added
RefreshInfo(r, t) ==
  [present |-> TRUE, expiry_time |-> t + r.expires_in, expires_in |-> r.expires_in,
   access_token |-> IF r.missing = "access_token" THEN Absent ELSE r.access_token,
   refresh_token |-> IF r.missing = "refresh_token" THEN Absent ELSE r.refresh_token,
   id_token |-> r.id_token]

\* lines 89-127: load AuthState, decide, possibly send the refresh POST
refresh_user ==
  /\ pc = "idle"
  /\ op' = "refresh_user"
  /\ r_local' = auth_state
  /\ r_now' = now
  /\ hook_called' = FALSE
  /\ error' = ""
  /\ base' = NoBase
  /\ user_data' = NoAuthState
  /\ onedata_token' = NoneVal
  /\ onedata_user' = NoneVal
  /\ s_local' = NoAuthState
  /\ IF ~CanRefresh(auth_state)
     THEN /\ result' = "False"
          /\ log' = <<>>
          /\ pc' = "idle"
     ELSE IF StillValid(TimeLeft(auth_state, now))
     THEN /\ result' = "True"
          /\ log' = <<>>
          /\ pc' = "idle"
     ELSE /\ result' = "pending"
          /\ log' = <<TokenRequest(auth_state)>>
          /\ pc' = "r_fetch"
  /\ UNCHANGED <<now, loginVars, config, auth_state, spawner, environment>>

\* mutant: the failure is not caught
refresh_user_except_raise ==
  /\ Raise("HTTPClientError")
  /\ UNCHANGED <<r_local, spawner, hook_called>>

\* lines 128-130: except HTTPClientError
refresh_user_except ==
  /\ pc' = "idle"
  /\ result' = "False"
  /\ error' = ""
  /\ UNCHANGED <<auth_state, r_local, spawner, hook_called>>

\* lines 137-140: set_access_token, if the spawner has it
SetAccessToken(sp, access_token, id_token) ==
  IF has_hook
  THEN [access_token |-> access_token,
        id_token |-> IF id_token = Absent THEN NoneVal ELSE id_token]
  ELSE sp

\* mutant: what was overwritten before a KeyError is stored all the same
refresh_user_success_partial(r) ==
  LET info == RefreshInfo(r, r_now)
      l1 == [r_local EXCEPT !.refresh_info = info]
      l2 == [l1 EXCEPT !.access_token = info.access_token]
      l3 == [l2 EXCEPT !.refresh_token = info.refresh_token]
      l == IF r.missing = "expires_in" THEN r_local
           ELSE IF r.missing = "access_token" THEN l1
           ELSE IF r.missing = "refresh_token" THEN l2 ELSE l3
  IN
  /\ r_local' = l
  /\ auth_state' = l
  /\ pc' = "idle"
  /\ error' = IF r.missing = "none" THEN "" ELSE "KeyError"
  /\ result' = IF r.missing = "none" THEN "returned" ELSE "raised"
  /\ spawner' = IF r.missing = "none"
                THEN SetAccessToken(spawner, l3.access_token, r.id_token) ELSE spawner
  /\ hook_called' = (r.missing = "none" /\ has_hook)

\* mutant: a new dict with the three refreshed keys alone is returned
refresh_user_success_fresh(r) ==
  LET info == RefreshInfo(r, r_now)
      l3 == [NoAuthState EXCEPT !.exists = TRUE, !.refresh_info = info,
                                !.access_token = info.access_token,
                                !.refresh_token = info.refresh_token]
  IN
  IF r.missing # "none"
  THEN /\ Raise("KeyError")
       /\ UNCHANGED <<r_local, spawner, hook_called>>
  ELSE /\ r_local' = l3
       /\ spawner' = SetAccessToken(spawner, l3.access_token, r.id_token)
       /\ hook_called' = has_hook
       /\ auth_state' = l3
       /\ result' = "returned"
       /\ error' = ""
       /\ pc' = "idle"

\* lines 131-141: the body is parsed and the local auth_state overwritten key
\* by key; a missing key raises KeyError and nothing is returned; the platform
\* stores the auth_state that is returned
refresh_user_success(r) ==
  LET info == RefreshInfo(r, r_now)
      l1 == [r_local EXCEPT !.refresh_info = info]
      l2 == [l1 EXCEPT !.access_token = info.access_token]
      l3 == [l2 EXCEPT !.refresh_token = info.refresh_token]
  IN
  IF r.missing = "expires_in"
  THEN /\ Raise("KeyError")
       /\ UNCHANGED <<r_local, spawner, hook_called>>
  ELSE IF r.missing = "access_token"
  THEN /\ Raise("KeyError")
       /\ r_local' = l1
       /\ UNCHANGED <<spawner, hook_called>>
  ELSE IF r.missing = "refresh_token"
  THEN /\ Raise("KeyError")
       /\ r_local' = l2
       /\ UNCHANGED <<spawner, hook_called>>
  ELSE /\ r_local' = l3
       /\ spawner' = SetAccessToken(spawner, l3.access_token, r.id_token)
       /\ hook_called' = has_hook
       /\ auth_state' = l3
       /\ result' = "returned"
       /\ error' = ""
       /\ pc' = "idle"

\* lines 126-141: the token endpoint answers
refresh_user_response ==
  /\ pc = "r_fetch"
  /\ \E r \in TokenResponses :
       /\ log' = Append(log, Resp("refresh", r.code,
                                  IF r.code = 200 THEN RefreshInfo(r, r_now).access_token
                                  ELSE Absent, Absent))
       /\ IF r.code # 200 THEN refresh_user_except ELSE refresh_user_success(r)
  /\ UNCHANGED <<now, loginVars, config, op, authLocals, r_now, spawnVars>>

\* ------------------------------------ DataHubAuthenticator.pre_spawn_start
\* a request to the mapping API of the provider, lines 277-292 and 308-313
MapReq(what, method, user_id, body) ==
  [ev |-> "req", what |-> what, method |-> method, code |-> 0,
   auth |-> <<oneprovider_token>>, name |-> storage_id, user |-> user_id,
   body |-> body]

NoBody == [onedataUserId |-> Absent, type |-> "", uid |-> "", displayUid |-> ""]

\* mutant: the payload carries no user id
Mapping_noUser(user_id) ==
  [onedataUserId |-> NoneVal, type |-> "posix", uid |-> "1000", displayUid |-> "1000"]

\* lines 298-307
Mapping(user_id) ==
  [onedataUserId |-> user_id, type |-> "posix", uid |-> "1000", displayUid |-> "1000"]

\* line 291: auth_state.get("onedata_user")
UserIdOf(as) == IF as.onedata_user = Absent THEN NoneVal ELSE as.onedata_user

\* line 292
MappingLookupRequest(user_id) == MapReq("mapping_lookup", "GET", user_id, NoBody)
\* lines 308-313
MappingCreateRequest(user_id) == MapReq("mapping_create", "POST", "", Mapping(user_id))

\* what http_client.fetch can give for the mapping API
MappingLookupResponses ==
  {Resp("mapping_lookup", c, Absent, Absent) : c \in {200} \cup ErrorCodes}
MappingCreateResponses ==
  {Resp("mapping_create", c, Absent, Absent) : c \in {200} \cup ErrorCodes}

\* mutant: every failure of the mapping lookup is taken for "not found"
MappingNotFound_any(code) == TRUE

\* line 297
MappingNotFound(code) == code = 404

\* mutant: the mapping is performed whatever map_users says
MappingEnabled_always == TRUE

\* line 276
MappingEnabled == map_users

\* mutant: a missing auth_state is not tested
HasAuthState_always(as) == TRUE

\* line 273, negated
HasAuthState(as) == as.exists

\* mutant: the provider host is not exported
SetEnvironment_tokenOnly(env, as) ==
  [env EXCEPT !.token_env = IF as.onedata_token = Absent THEN NoneVal
                            ELSE as.onedata_token]

\* lines 323-324
SetEnvironment(env, as) ==
  [token_env |-> IF as.onedata_token = Absent THEN NoneVal ELSE as.onedata_token,
   oneprovider_env |-> oneprovider_host]

\* pre_spawn_start returns (None): the environment is set first
SpawnReturn(as) ==
  /\ environment' = SetEnvironment(environment, as)
  /\ pc' = "idle"
  /\ result' = "done"
  /\ error' = ""

\* lines 143-146 (super().pre_spawn_start) and 270-292: the hook, then the
\* mapping lookup GET is sent if mapping is enabled
pre_spawn_start ==
  /\ pc = "idle"
  /\ op' = "pre_spawn_start"
  /\ base' = NoBase
  /\ user_data' = NoAuthState
  /\ onedata_token' = NoneVal
  /\ onedata_user' = NoneVal
  /\ r_now' = 0
  /\ r_local' = NoAuthState
  /\ s_local' = auth_state
  /\ IF auth_state.exists /\ has_hook
     THEN /\ spawner' = [access_token |-> auth_state.access_token, id_token |-> Absent]
          /\ hook_called' = TRUE
     ELSE /\ hook_called' = FALSE
          /\ UNCHANGED spawner
  /\ IF ~HasAuthState(auth_state)
     THEN /\ log' = <<>>
          /\ pc' = "idle"
          /\ result' = "done"
          /\ error' = ""
          /\ UNCHANGED environment
     ELSE IF MappingEnabled
     THEN /\ log' = <<MappingLookupRequest(UserIdOf(auth_state))>>
          /\ pc' = "s_lookup"
          /\ result' = "pending"
          /\ error' = ""
          /\ UNCHANGED environment
     ELSE /\ log' = <<>>
          /\ SpawnReturn(auth_state)
  /\ UNCHANGED <<now, loginVars, config, auth_state>>

\* lines 293-313 and 320-324: the mapping lookup answers
pre_spawn_start_lookup ==
  /\ pc = "s_lookup"
  /\ \E r \in MappingLookupResponses :
       IF r.code = 200
       THEN /\ log' = Append(log, r)
            /\ SpawnReturn(s_local)
            /\ UNCHANGED auth_state
       ELSE IF MappingNotFound(r.code)
       THEN /\ log' = Append(Append(log, r), MappingCreateRequest(UserIdOf(s_local)))
            /\ pc' = "s_create"
            /\ UNCHANGED <<result, error, auth_state, environment>>
       ELSE /\ log' = Append(log, r)
            /\ Raise("HTTPError")
            /\ UNCHANGED environment
  /\ UNCHANGED <<now, loginVars, config, spawner, hook_called, op, authLocals, refreshLocals,
                 s_local>>

\* lines 314-324: the mapping creation POST answers
pre_spawn_start_create ==
  /\ pc = "s_create"
  /\ \E r \in MappingCreateResponses :
       /\ log' = Append(log, r)
       /\ IF r.code = 200
          THEN /\ SpawnReturn(s_local)
               /\ UNCHANGED auth_state
          ELSE /\ Raise("HTTPError")
               /\ UNCHANGED environment
  /\ UNCHANGED <<now, loginVars, config, spawner, hook_called, op, authLocals, refreshLocals,
                 s_local>>

\* ------------------------------------------------------------------ claims
\* the requests of kind `what` in a log, by position
ReqsOf(l, what) == {i \in 1..Len(l) : l[i].ev = "req" /\ l[i].what = what}

\* the number of requests in a log
NumReqs(l) == Cardinality({i \in 1..Len(l) : l[i].ev = "req"})

\* the lookup of the authenticate call in progress (or completed last) was
\* answered at log[2]
LookupAnswered ==
  /\ op = "authenticate"
  /\ Len(log) >= 2
  /\ log[2].ev = "resp"
  /\ log[2].what = "token_lookup"

\* the lookup succeeded and its body holds a token value
LookupFound ==
  /\ LookupAnswered
  /\ log[2].code = 200
  /\ log[2].token \notin {Absent, ""}

\* C1: when the named-token lookup succeeds and returns an existing token, no
\* creation POST and no user-resolution GET is issued, authenticate returns,
\* and the returned AuthState has onedata_token and onedata_user exactly as
\* the lookup response gave them.
C1_ReuseLaw ==
  LookupFound =>
    /\ ReqsOf(log, "token_create") = {}
    /\ ReqsOf(log, "user") = {}
    /\ NumReqs(log) = 1
    /\ log[2].user # Absent => result = "returned"
    /\ result = "returned" =>
         /\ user_data.onedata_token = log[2].token
         /\ user_data.onedata_user = log[2].user
         /\ auth_state = user_data

C1_Witness ==
  /\ LookupFound
  /\ result = "returned"
  /\ user_data.onedata_token = "tok1"
  /\ user_data.onedata_user = "u1"

Lookup404 == LookupAnswered /\ log[2].code = 404

\* every 200 body received held the keys the code reads
BodiesComplete ==
  \A i \in 1..Len(log) :
    (log[i].ev = "resp" /\ log[i].code = 200) =>
      /\ log[i].what \in {"token_lookup", "token_create"} => log[i].token # Absent
      /\ log[i].what \in {"token_lookup", "user"} => log[i].user # Absent

\* C2 as stated (read for complete response bodies): whenever the lookup
\* returns 404, exactly one creation POST and exactly one user-resolution GET
\* are issued by the completed call.
C2_Original ==
  (Lookup404 /\ pc = "idle" /\ BodiesComplete) =>
    /\ Cardinality(ReqsOf(log, "token_create")) = 1
    /\ Cardinality(ReqsOf(log, "user")) = 1

\* the creation POST was answered with a token value
CreateSucceeded ==
  /\ Len(log) >= 4
  /\ log[4].ev = "resp"
  /\ log[4].what = "token_create"
  /\ log[4].code = 200
  /\ log[4].token # Absent

\* C2 amended: whenever the lookup returns 404, exactly one creation POST is
\* issued, after the lookup has completed; exactly one user-resolution GET is
\* issued after the creation has completed if the creation succeeded, and none
\* if it failed; when both succeed the returned AuthState has onedata_token
\* from the creation response and onedata_user from the user response.
C2_CreationLaw ==
  Lookup404 =>
    /\ ReqsOf(log, "token_lookup") = {1}
    /\ ReqsOf(log, "token_create") = {3}
    /\ log[3].method = "POST"
    /\ Len(log) >= 4 => log[4].ev = "resp" /\ log[4].what = "token_create"
    /\ IF CreateSucceeded
       THEN /\ ReqsOf(log, "user") = {5}
            /\ log[5].method = "GET"
            /\ Len(log) >= 6 => log[6].ev = "resp" /\ log[6].what = "user"
       ELSE ReqsOf(log, "user") = {}
    /\ Len(log) <= 6
    /\ result = "returned" <=>
         (CreateSucceeded /\ Len(log) = 6 /\ log[6].code = 200 /\ log[6].user # Absent)
    /\ result = "returned" =>
         /\ user_data.onedata_token = log[4].token
         /\ user_data.onedata_user = log[6].user
         /\ auth_state = user_data

C2_Witness ==
  /\ Lookup404
  /\ result = "returned"
  /\ Len(log) = 6
  /\ user_data.onedata_token = "tok2"
  /\ user_data.onedata_user = "u2"

\* a response that is a failure other than the lookup's 404
FailureAt(i) ==
  /\ log[i].ev = "resp"
  /\ log[i].code # 200
  /\ ~(log[i].what = "token_lookup" /\ log[i].code = 404)

\* the values the storage system sent
TokensReceived == {log[i].token : i \in {j \in 1..Len(log) : log[j].ev = "resp"}}
UsersReceived == {log[i].user : i \in {j \in 1..Len(log) : log[j].ev = "resp"}}

\* C3: a lookup failure other than 404, a failed creation POST or a failed
\* user-resolution GET ends authenticate with the error propagated, nothing
\* returned and no request after it; every AuthState authenticate returns has
\* onedata_token and onedata_user taken from storage-system responses.
C3_FailClosed ==
  op = "authenticate" =>
    /\ \A i \in 1..Len(log) :
         FailureAt(i) =>
           /\ i = Len(log)
           /\ pc = "idle"
           /\ result = "raised"
           /\ error = "HTTPError"
    /\ result = "returned" =>
         /\ user_data.onedata_token \in TokensReceived \ {Absent, NoneVal}
         /\ user_data.onedata_user \in UsersReceived \ {Absent, NoneVal}
         /\ auth_state = user_data
         /\ \A i \in 1..Len(log) : ~FailureAt(i)

C3_Witness ==
  /\ op = "authenticate"
  /\ result = "raised"
  /\ Len(log) = 6
  /\ FailureAt(6)

HasRefreshToken == auth_state.exists /\ auth_state.refresh_token # Absent

\* C5: for an AuthState with a refresh_token whose expiry_time minus now is
\* greater than the margin, refresh_user issues no network call, returns True
\* and leaves AuthState and the spawner's token unchanged.
C5_RefreshValid ==
  [][(/\ refresh_user
      /\ HasRefreshToken
      /\ auth_state.refresh_info.present
      /\ auth_state.refresh_info.expiry_time - now > auth_refresh_age)
     => (/\ log' = <<>>
         /\ pc' = "idle"
         /\ result' = "True"
         /\ auth_state' = auth_state
         /\ spawner' = spawner
         /\ ~hook_called')]_vars

C5_Witness ==
  /\ op = "refresh_user"
  /\ result = "True"
  /\ log = <<>>
  /\ r_local.refresh_token # Absent
  /\ r_local.refresh_info.expiry_time - r_now > auth_refresh_age

\* C6: for an AuthState with a refresh_token whose time left is at most the
\* margin, or whose expiry_time is unknown, refresh_user issues exactly one
\* POST to the token endpoint, with grant_type=refresh_token, the stored
\* refresh token and the client credentials.
C6_RefreshExpiring ==
  [][/\ (/\ refresh_user
         /\ HasRefreshToken
         /\ \/ ~auth_state.refresh_info.present
            \/ auth_state.refresh_info.expiry_time - now <= auth_refresh_age)
        => (/\ Len(log') = 1
            /\ log'[1].ev = "req"
            /\ log'[1].what = "refresh"
            /\ log'[1].method = "POST"
            /\ log'[1].grant = "refresh_token"
            /\ log'[1].rtok = auth_state.refresh_token
            /\ log'[1].id = client_id
            /\ log'[1].secret = client_secret
            /\ pc' = "r_fetch")
     /\ (pc = "r_fetch") => (NumReqs(log') = 1 /\ pc' \in {"r_fetch", "idle"})]_vars

C6_Witness ==
  /\ op = "refresh_user"
  /\ pc = "idle"
  /\ Len(log) = 2
  /\ log[1].rtok = "rt1"
  /\ r_now > 1

\* the call completed last was a refresh_user call that refreshed, and a
\* second call starts within the margin of it, before the new expiry_time
SecondCallInWindow ==
  /\ refresh_user
  /\ op = "refresh_user"
  /\ result = "returned"
  /\ now - r_now <= auth_refresh_age
  /\ now < auth_state.refresh_info.expiry_time

\* C7 as stated: two refresh_user calls within margin seconds of each other,
\* the expiry not elapsed, make one network call in total and leave an
\* identical AuthState.
C7_Original ==
  [][SecondCallInWindow
     => (/\ NumReqs(log) + NumReqs(log') = 1
         /\ pc' = "idle"
         /\ auth_state' = auth_state)]_vars

\* C7 amended: two refresh_user calls within margin seconds of each other, the
\* first of which refreshed, the second starting while the new expiry_time
\* minus now is still greater than the margin, make one network call in
\* total and leave an identical AuthState.
C7_RefreshIdempotent ==
  [][(/\ SecondCallInWindow
      /\ auth_state.refresh_info.expiry_time - now > auth_refresh_age)
     => (/\ NumReqs(log) + NumReqs(log') = 1
         /\ pc' = "idle"
         /\ result' = "True"
         /\ auth_state' = auth_state)]_vars

C7_Witness ==
  /\ op = "refresh_user"
  /\ result = "True"
  /\ log = <<>>
  /\ auth_state = r_local
  /\ r_local.refresh_info.present
  /\ r_now - (r_local.refresh_info.expiry_time - r_local.refresh_info.expires_in)
       <= auth_refresh_age
  /\ r_now < r_local.refresh_info.expiry_time

\* C8: when AuthState is absent or has no refresh_token, refresh_user returns
\* False without raising, issues no network call and changes neither AuthState
\* nor the spawner.
C8_RefreshNotPossible ==
  [][(refresh_user /\ ~HasRefreshToken)
     => (/\ log' = <<>>
         /\ pc' = "idle"
         /\ result' = "False"
         /\ error' = ""
         /\ auth_state' = auth_state
         /\ spawner' = spawner
         /\ ~hook_called')]_vars

C8_Witness ==
  /\ op = "refresh_user"
  /\ result = "False"
  /\ log = <<>>
  /\ r_local.exists
  /\ r_local.refresh_token = Absent

C10_RefreshFailureSoft ==
  [][(pc = "r_fetch" /\ Len(log') = 2 /\ log'[2].code # 200)
     => (/\ pc' = "idle"
         /\ result' = "False"
         /\ auth_state' = auth_state
         /\ auth_state'.exists
         /\ r_local' = r_local
         /\ spawner' = spawner
         /\ ~hook_called')]_vars

C10_Witness ==
  /\ op = "refresh_user"
  /\ result = "False"
  /\ Len(log) = 2
  /\ log[2].code = 599
  /\ auth_state.refresh_info.present

\* the token endpoint answers 200 to the refresh POST in this step
RefreshAnswered200 == pc = "r_fetch" /\ Len(log') = 2 /\ log'[2].code = 200

\* C11: when the token-endpoint call succeeds, refresh_user sets expiry_time to
\* now (as read at line 95) plus expires_in, overwrites access_token,
\* refresh_token and refresh_info from the response, calls set_access_token with
\* the new access token and the id token (None without one) if and only if the
\* spawner has that hook, and returns the updated AuthState; a 200 body that
\* lacks a key raises KeyError instead.
C11_RefreshSuccess ==
  [][RefreshAnswered200
     => \/ result' = "raised" /\ error' = "KeyError"
        \/ /\ result' = "returned"
           /\ pc' = "idle"
           /\ auth_state' = r_local'
           /\ auth_state'.refresh_info.present
           /\ auth_state'.refresh_info.expires_in \in 1..MaxExpiresIn
           /\ auth_state'.refresh_info.expiry_time
                = r_now + auth_state'.refresh_info.expires_in
           /\ auth_state'.access_token = log'[2].token
           /\ auth_state'.access_token = auth_state'.refresh_info.access_token
           /\ auth_state'.access_token \in NewAccessTokens
           /\ auth_state'.refresh_token = auth_state'.refresh_info.refresh_token
           /\ auth_state'.refresh_token \in NewRefreshTokens
           /\ hook_called' = has_hook
           /\ IF has_hook
              THEN /\ spawner'.access_token = auth_state'.access_token
                   /\ spawner'.id_token =
                        IF auth_state'.refresh_info.id_token = Absent
                        THEN NoneVal ELSE auth_state'.refresh_info.id_token
              ELSE spawner' = spawner]_vars

C11_Witness ==
  /\ op = "refresh_user"
  /\ result = "returned"
  /\ hook_called
  /\ spawner.access_token = "at2"
  /\ spawner.id_token = "id1"
  /\ auth_state.access_token = "at2"
  /\ auth_state.refresh_info.expiry_time = r_now + MaxExpiresIn
  /\ now > r_now

\* C16: every AuthState a successful authenticate or refresh_user call returns,
\* and so every AuthState the platform holds, contains access_token.
C16_AccessTokenSet ==
  /\ auth_state.exists => auth_state.access_token # Absent
  /\ (result = "returned" /\ op = "authenticate") =>
       /\ user_data.exists
       /\ user_data.access_token # Absent
       /\ user_data.access_token = base.access_token
  /\ (result = "returned" /\ op = "refresh_user") =>
       /\ r_local.exists
       /\ r_local.access_token # Absent

C16_Witness ==
  /\ op = "authenticate"
  /\ result = "returned"
  /\ user_data.access_token = "at0"
  /\ auth_state.access_token = "at0"

C19_RefreshKeepsStorage ==
  [][op' = "refresh_user"
     => /\ auth_state'.exists = auth_state.exists
        /\ auth_state'.onedata_token = auth_state.onedata_token
        /\ auth_state'.onedata_user = auth_state.onedata_user
        /\ [auth_state' EXCEPT !.access_token = auth_state.access_token,
                               !.refresh_token = auth_state.refresh_token,
                               !.refresh_info = auth_state.refresh_info]
             = auth_state]_vars

C19_Witness ==
  /\ op = "refresh_user"
  /\ result = "returned"
  /\ Len(log) = 2
  /\ log[1].rtok = "rt1"
  /\ auth_state.onedata_token = "tok2"
  /\ auth_state.onedata_user = "u2"

\* ---------------------------------------------- pre_spawn_start claims
\* the mapping lookup of the pre_spawn_start call in progress (or completed
\* last) was answered at log[2]
MappingAnswered ==
  /\ op = "pre_spawn_start"
  /\ Len(log) >= 2
  /\ log[2].ev = "resp"
  /\ log[2].what = "mapping_lookup"

\* the fixed POSIX credential descriptor paired with a storage user id
PosixMapping(b, user_id) ==
  /\ b.onedataUserId = user_id
  /\ b.type = "posix"
  /\ b.uid = "1000"

\* both variables of the spawner environment hold what lines 323-324 write
EnvironmentSet ==
  /\ environment.token_env = s_local.onedata_token
  /\ environment.oneprovider_env = oneprovider_host

\* a response of the mapping API that makes pre_spawn_start fail
MappingFailureAt(i) ==
  /\ log[i].ev = "resp"
  /\ log[i].code # 200
  /\ ~(log[i].what = "mapping_lookup" /\ log[i].code = 404)

\* C12: mapping idempotence.  With mapping enabled, a mapping lookup for
\* the storage user id of AuthState answered 200 is followed by no creation
\* POST; a lookup answered 404 is followed by exactly one creation POST,
\* whose payload pairs AuthState's onedata_user with the POSIX descriptor
\* (type posix, uid 1000).
C12_MappingIdempotent ==
  (map_users /\ MappingAnswered) =>
    /\ log[1].method = "GET"
    /\ log[1].user = s_local.onedata_user
    /\ (log[2].code = 200 => ReqsOf(log, "mapping_create") = {})
    /\ (log[2].code = 404 =>
          /\ ReqsOf(log, "mapping_create") = {3}
          /\ log[3].method = "POST"
          /\ PosixMapping(log[3].body, s_local.onedata_user))

C12_Witness ==
  /\ map_users
  /\ MappingAnswered
  /\ log[2].code = 404
  /\ Len(log) = 4
  /\ log[4].code = 200
  /\ result = "done"
  /\ s_local.onedata_user = "u1"

\* C13 as stated: every completed pre_spawn_start with an AuthState, the
\* failed mapping included, ends with both environment variables set.
C13_Original ==
  (op = "pre_spawn_start" /\ pc = "idle" /\ s_local.exists) => EnvironmentSet

\* C13: every pre_spawn_start that has an AuthState and returns normally
\* (mapping disabled, mapping found or mapping created) ends with token_env
\* set to the storage token of AuthState and oneprovider_env set to the
\* provider host; a pre_spawn_start that raises on a failed mapping leaves
\* the environment as it was.
C13_EnvironmentOnReturn ==
  [][/\ (op' = "pre_spawn_start" /\ result' = "done" /\ s_local'.exists)
          => EnvironmentSet'
     /\ (op' = "pre_spawn_start" /\ result' = "raised" /\ pc # "idle")
          => environment' = environment]_vars

C13_Witness ==
  /\ op = "pre_spawn_start"
  /\ result = "done"
  /\ s_local.exists
  /\ map_users
  /\ Len(log) = 4
  /\ environment.token_env = "tok2"
  /\ environment.oneprovider_env = oneprovider_host

\* C14: the mapping fails closed.  A mapping lookup answered with an error
\* other than 404, or a failed creation POST, is the last event of
\* pre_spawn_start, which raises the error; at most one lookup and at most
\* one creation POST are ever sent.
C14_MappingFailClosed ==
  (op = "pre_spawn_start") =>
    /\ \A i \in 1..Len(log) :
         MappingFailureAt(i) =>
           /\ i = Len(log)
           /\ pc = "idle"
           /\ result = "raised"
           /\ error = "HTTPError"
    /\ Cardinality(ReqsOf(log, "mapping_lookup")) <= 1
    /\ Cardinality(ReqsOf(log, "mapping_create")) <= 1

C14_Witness ==
  /\ op = "pre_spawn_start"
  /\ Len(log) = 4
  /\ MappingFailureAt(4)
  /\ log[4].what = "mapping_create"
  /\ result = "raised"

\* C15: with map_users false, pre_spawn_start sends no mapping lookup and
\* no mapping creation request, whatever the AuthState.
C15_NoMappingWhenDisabled ==
  (op = "pre_spawn_start" /\ ~map_users) => log = <<>>

C15_Witness ==
  /\ op = "pre_spawn_start"
  /\ ~map_users
  /\ result = "done"
  /\ s_local.exists
  /\ s_local.onedata_user = "u2"
  /\ environment.token_env = s_local.onedata_token

\* C20: with no AuthState, pre_spawn_start returns normally, sends no
\* mapping request even when map_users is true, does not call the
\* set_access_token hook and leaves the spawner and its environment as
\* they were.
C20_NoAuthStateNoEffect ==
  [][(pre_spawn_start /\ ~auth_state.exists) =>
       /\ pc' = "idle"
       /\ result' = "done"
       /\ log' = <<>>
       /\ ~hook_called'
       /\ spawner' = spawner
       /\ environment' = environment]_vars

C20_Witness ==
  /\ op = "pre_spawn_start"
  /\ result = "done"
  /\ ~s_local.exists
  /\ map_users
  /\ has_hook
  /\ log = <<>>
  /\ environment = NoEnvironment

\* ------------------------- concurrent logins against one storage system
\* Each pipeline runs DataHubAuthenticator.authenticate for the same
\* identity; the awaits of lines 229, 249 and 264 are where the pipelines
\* interleave.  The storage system keeps every token it created and
\* answers the lookup by name from what it holds.
singleVars == <<now, config, auth_state, spawner, hook_called, pc, op, result,
                error, log, authLocals, refreshLocals, spawnVars>>

\* the storage system answers GET .../tokens/named/{token_name}
StoreLookup(st) ==
  IF st = <<>>
  THEN Resp("token_lookup", 404, Absent, Absent)
  ELSE Resp("token_lookup", 200, st[1], Absent)

\* lines 204-229: the base login succeeded, the lookup GET is sent
login(p) ==
  /\ l_pc[p] = "idle"
  /\ started < MaxLogins
  /\ started' = started + 1
  /\ l_pc' = [l_pc EXCEPT ![p] = "a_lookup"]
  /\ l_token' = [l_token EXCEPT ![p] = NoneVal]
  /\ l_result' = [l_result EXCEPT ![p] = "pending"]
  /\ UNCHANGED <<store, posts, singleVars>>

\* lines 230-258: the lookup answers; on 404 the creation POST is sent
login_lookup(p) ==
  /\ l_pc[p] = "a_lookup"
  /\ LET r == StoreLookup(store) IN
       IF r.code = 200
       THEN /\ l_token' = [l_token EXCEPT ![p] = r.token]
            /\ l_pc' = [l_pc EXCEPT ![p] = "a_user"]
            /\ UNCHANGED <<posts, l_result>>
       ELSE IF NotFound(r.code)
       THEN /\ posts' = posts + 1
            /\ l_pc' = [l_pc EXCEPT ![p] = "a_create"]
            /\ UNCHANGED <<l_token, l_result>>
       ELSE /\ l_pc' = [l_pc EXCEPT ![p] = "idle"]
            /\ l_result' = [l_result EXCEPT ![p] = "raised"]
            /\ UNCHANGED <<posts, l_token>>
  /\ UNCHANGED <<store, started, singleVars>>

\* lines 249-258: the storage system creates the token and answers the POST
login_create(p) ==
  /\ l_pc[p] = "a_create"
  /\ \E tok \in CreatedTokens :
       /\ store' = Append(store, tok)
       /\ l_token' = [l_token EXCEPT ![p] = tok]
  /\ l_pc' = [l_pc EXCEPT ![p] = "a_user"]
  /\ UNCHANGED <<posts, started, l_result, singleVars>>

\* lines 259-268: the user-resolution GET answers or fails
login_user(p) ==
  /\ l_pc[p] = "a_user"
  /\ l_pc' = [l_pc EXCEPT ![p] = "idle"]
  /\ \E code \in {200} \cup ErrorCodes :
       l_result' = [l_result EXCEPT ![p] = IF code = 200 THEN "returned" ELSE "raised"]
  /\ UNCHANGED <<store, posts, started, l_token, singleVars>>

LoginNext ==
  \E p \in Logins :
    \/ login(p)
    \/ login_lookup(p)
    \/ login_create(p)
    \/ login_user(p)

LoginSpec == Init /\ [][LoginNext]_vars

\* C17: against a storage system that keeps every token it created, over
\* any sequence and interleaving of logins of one identity, at most one
\* creation POST for the token name is ever issued.
C17_Original == posts <= 1

Next ==
  \/ Tick
  \/ authenticate
  \/ authenticate_lookup
  \/ authenticate_create
  \/ authenticate_user
  \/ refresh_user
  \/ refresh_user_response
  \/ pre_spawn_start
  \/ pre_spawn_start_lookup
  \/ pre_spawn_start_create

Spec == Init /\ [][Next]_vars
====
